---------------------------- MODULE Spec2Model ----------------------------
(***************************************************************************)
(* A model of the GTM Labs MCP server (src/server.py): the security policy *)
(* (should_exclude_file, redact_content), the categorizer                  *)
(* (scan_components), the extractors (get_component_specs,                 *)
(* get_component_dependencies), the version reader (get_file_at_version)   *)
(* and the two protocol handlers (call_tool, read_resource).               *)
(*                                                                         *)
(* Texts (file contents, path segments, URIs, queries) are sequences of    *)
(* one-character strings, so that the regular expressions of the source    *)
(* are modelled by what they match, character by character.                *)
(***************************************************************************)
EXTENDS Integers, Sequences, FiniteSets, TLC

VARIABLES
    fs,     \* the working tree: path (relative to PROJECT_ROOT) -> file
    git,    \* the object store: revision name -> (path -> content)
    call,   \* the request being served, or None
    ret     \* what the handler returned (or raised) for call, or None

vars == <<fs, git, call, ret>>

None == [kind |-> "none"]

----------------------------------------------------------------------------
(* Characters and texts                                                    *)

LowerSeq == <<"a","b","c","d","e","f","g","h","i","j","k","l","m",
              "n","o","p","q","r","s","t","u","v","w","x","y","z">>
UpperSeq == <<"A","B","C","D","E","F","G","H","I","J","K","L","M",
              "N","O","P","Q","R","S","T","U","V","W","X","Y","Z">>
Digit == {"0","1","2","3","4","5","6","7","8","9"}
LowerCh == {LowerSeq[i] : i \in 1..26}
UpperCh == {UpperSeq[i] : i \in 1..26}
\* [a-zA-Z0-9]
Alnum == LowerCh \cup UpperCh \cup Digit
\* \w
WordCh == Alnum \cup {"_"}
\* \s
Space == {" ", "\n", "\t"}

\* str.lower() on one character
LowerChar(c) ==
    IF c \in UpperCh THEN LowerSeq[CHOOSE i \in 1..26 : UpperSeq[i] = c] ELSE c
\* str.lower()
Lower(s) == [i \in 1..Len(s) |-> LowerChar(s[i])]

\* s[i:].startswith(lit)   (i is 1-based)
StartsWithAt(s, i, lit) ==
    /\ i + Len(lit) - 1 <= Len(s)
    /\ \A j \in 1..Len(lit) : s[i + j - 1] = lit[j]

\* the same under re.IGNORECASE; lit is written in lower case
StartsWithAtI(s, i, lit) ==
    /\ i + Len(lit) - 1 <= Len(s)
    /\ \A j \in 1..Len(lit) : LowerChar(s[i + j - 1]) = lit[j]

\* needle in hay
Contains(hay, needle) ==
    \E i \in 1..(Len(hay) - Len(needle) + 1) : StartsWithAt(hay, i, needle)

\* re.search(re.escape(needle), hay, re.IGNORECASE); needle in lower case
ContainsI(hay, needle) ==
    \E i \in 1..(Len(hay) - Len(needle) + 1) : StartsWithAtI(hay, i, needle)

Min(S) == CHOOSE x \in S : \A y \in S : x <= y
Max(S) == CHOOSE x \in S : \A y \in S : x >= y
\* the least member of S, or default when S is empty
MinOr(S, default) == IF S = {} THEN default ELSE Min(S)

\* a greedy character-class run  [class]*  from i: the index after it
RunEnd(s, i, class) ==
    IF i > Len(s) THEN i
    ELSE MinOr({j \in i..Len(s) : s[j] \notin class}, Len(s) + 1)

\* a greedy run of characters outside class from i: the index after it
RunEndNot(s, i, class) ==
    IF i > Len(s) THEN i
    ELSE MinOr({j \in i..Len(s) : s[j] \in class}, Len(s) + 1)

\* the first literal of alts (an ordered alternation) that s has at i, or <<>>
RECURSIVE FirstAlt(_, _, _)
FirstAlt(s, i, alts) ==
    IF alts = <<>> THEN <<>>
    ELSE IF StartsWithAt(s, i, Head(alts)) THEN Head(alts)
    ELSE FirstAlt(s, i, Tail(alts))

\* s[i-1:j-1] in Python terms: the characters i .. j-1
Slice(s, i, j) == SubSeq(s, i, j - 1)

RECURSIVE Join(_, _)
\* sep.join(parts)
Join(parts, sep) ==
    IF parts = <<>> THEN <<>>
    ELSE IF Len(parts) = 1 THEN parts[1]
    ELSE parts[1] \o sep \o Join(Tail(parts), sep)

RECURSIVE SplitFrom(_, _, _)
SplitFrom(s, sep, start) ==
    LET j == RunEndNot(s, start, {sep})
    IN  IF j > Len(s) THEN <<Slice(s, start, Len(s) + 1)>>
        ELSE <<Slice(s, start, j)>> \o SplitFrom(s, sep, j + 1)
\* s.split(sep) for a one-character sep
Split(s, sep) == SplitFrom(s, sep, 1)

----------------------------------------------------------------------------
(* SecurityPolicy: redaction                                               *)

ToolToken == <<"[","R","E","D","A","C","T","E","D","_","T","O","O","L","]">>
KeyToken  == <<"[","R","E","D","A","C","T","E","D","_","K","E","Y","]">>

\* the {48} of the sk- alternative
KeyLen == 48

\* (MyMarky|UseQueue) under re.IGNORECASE: the index after a match at i, or 0
MatchTool(s, i) ==
    IF StartsWithAtI(s, i, <<"m","y","m","a","r","k","y">>) THEN i + 7
    ELSE IF StartsWithAtI(s, i, <<"u","s","e","q","u","e","u","e">>) THEN i + 8
    ELSE 0

\* sk-[a-zA-Z0-9]{48}
MatchSk(s, i) ==
    IF /\ StartsWithAtI(s, i, <<"s","k","-">>)
       /\ RunEnd(s, i + 3, Alnum) >= i + 3 + KeyLen
    THEN i + 3 + KeyLen ELSE 0

\* api[_-]?key[_-]?[a-zA-Z0-9]+
MatchApiKey(s, i) ==
    IF ~StartsWithAtI(s, i, <<"a","p","i">>) THEN 0
    ELSE LET j == IF i + 3 <= Len(s) /\ s[i + 3] \in {"_", "-"}
                  THEN i + 4 ELSE i + 3
         IN  IF ~StartsWithAtI(s, j, <<"k","e","y">>) THEN 0
             ELSE LET k == IF j + 3 <= Len(s) /\ s[j + 3] \in {"_", "-"}
                           THEN j + 4 ELSE j + 3
                      e == RunEnd(s, k, Alnum)
                  IN  IF e > k THEN e ELSE 0

\* (sk-[a-zA-Z0-9]{48}|api[_-]?key[_-]?[a-zA-Z0-9]+) under re.IGNORECASE
MatchKey(s, i) ==
    IF MatchSk(s, i) > 0 THEN MatchSk(s, i) ELSE MatchApiKey(s, i)

REDACT_PATTERNS ==
    << [pattern |-> "tool", replacement |-> ToolToken],
       [pattern |-> "key",  replacement |-> KeyToken] >>

\* re.match of a redaction pattern at i: the index after the match, or 0
MatchAt(pattern, s, i) ==
    IF pattern = "tool" THEN MatchTool(s, i) ELSE MatchKey(s, i)

\* where the scan finds its next match from i on, or 0
NextMatch(pattern, s, i) ==
    MinOr({j \in i..Len(s) : MatchAt(pattern, s, j) > 0}, 0)

RECURSIVE SubFrom(_, _, _, _)
SubFrom(pattern, replacement, s, i) ==
    LET j == NextMatch(pattern, s, i)
    IN  IF j = 0 THEN Slice(s, i, Len(s) + 1)
        ELSE Slice(s, i, j) \o replacement
             \o SubFrom(pattern, replacement, s, MatchAt(pattern, s, j))
\* re.sub(pattern, replacement, s, flags=re.IGNORECASE)
re_sub(pattern, replacement, s) == SubFrom(pattern, replacement, s, 1)

\* re.sub(pattern, replacement, s, count=1, flags=re.IGNORECASE)
re_sub_once(pattern, replacement, s) ==
    LET j == NextMatch(pattern, s, 1)
    IN  IF j = 0 THEN s
        ELSE Slice(s, 1, j) \o replacement
             \o Slice(s, MatchAt(pattern, s, j), Len(s) + 1)

RECURSIVE ApplyRules(_, _)
ApplyRules(rules, content) ==
    IF rules = <<>> THEN content
    ELSE ApplyRules(Tail(rules),
                    re_sub(Head(rules).pattern, Head(rules).replacement, content))

RECURSIVE ApplyRulesOnce(_, _)
ApplyRulesOnce(rules, content) ==
    IF rules = <<>> THEN content
    ELSE ApplyRulesOnce(Tail(rules),
            re_sub_once(Head(rules).pattern, Head(rules).replacement, content))

\* a redact_content that replaces only the first match of each rule (count=1)
redact_content_first_only(content) == ApplyRulesOnce(REDACT_PATTERNS, content)

redact_content(content) == ApplyRules(REDACT_PATTERNS, content)


----------------------------------------------------------------------------
(* redact_content as a pure function: the texts it is applied to           *)

\* how many chunks an input text is made of
MaxChunks == 3
\* how many times in a row a text is passed through redact_content
MaxPasses == 2

KeyAlphabet == <<"A","b","3","Z","k","9","q","T","0","m","X","e">>
RedactChunks ==
    { <<"s","k","-">>,
      \* 48 alphanumeric characters: the body of a secret key
      [i \in 1..KeyLen |-> KeyAlphabet[((i - 1) % Len(KeyAlphabet)) + 1]],
      <<"a","p","i","_","k","e","y","_">>,
      <<"a","p","i","k","e","y">>,
      <<"M","y","M","a","r","k","y">>,
      <<"-">>,
      <<"x">>,
      KeyToken }

RECURSIVE ChunkTexts(_)
\* the texts made of at most n chunks
ChunkTexts(n) ==
    IF n = 0 THEN { <<>> }
    ELSE LET shorter == ChunkTexts(n - 1)
         IN  shorter \cup { t \o c : t \in shorter, c \in RedactChunks }

Text(t) == [kind |-> "text", text |-> t]

\* redact_content(x) on a fresh text
CallRedact(x) ==
    /\ call = None
    /\ call' = [kind |-> "redact_content", content |-> x, passes |-> 1]
    /\ ret' = Text(redact_content(x))
    /\ UNCHANGED <<fs, git>>

\* redact_content applied again to its own output
CallRedactAgain ==
    /\ call.kind = "redact_content"
    /\ call.passes < MaxPasses
    /\ call' = [kind |-> "redact_content", content |-> ret.text,
                passes |-> call.passes + 1]
    /\ ret' = Text(redact_content(ret.text))
    /\ UNCHANGED <<fs, git>>

InitRedact ==
    /\ fs = <<>>
    /\ git = [trees |-> <<>>, log |-> <<>>, tags |-> <<>>]
    /\ call = None
    /\ ret = None

NextRedact ==
    \/ \E x \in ChunkTexts(MaxChunks) : CallRedact(x)
    \/ CallRedactAgain

SpecRedact == InitRedact /\ [][NextRedact]_vars

----------------------------------------------------------------------------
(* Claims about redact_content                                             *)

\* `sk-` followed by 48 alphanumeric characters starts at p
KeySpanAt(x, p) ==
    /\ StartsWithAt(x, p, <<"s","k","-">>)
    /\ p + 2 + KeyLen <= Len(x)
    /\ \A j \in 1..KeyLen : x[p + 2 + j] \in Alnum

Occurrences(hay, needle) ==
    Cardinality({i \in 1..(Len(hay) - Len(needle) + 1) :
                    StartsWithAt(hay, i, needle)})

\* C3: for every text that contains `sk-` followed by 48 alphanumeric
\* characters, redact_content returns a text in which that span has been
\* replaced by [REDACTED_KEY], whatever surrounds it.  Stated on the texts
\* in which the 48 characters of the span occur once: the output no longer
\* contains them.
C3_KeySpanReplaced ==
    (call.kind = "redact_content" /\ call.passes = 1) =>
        \A p \in 1..Len(call.content) :
            (/\ KeySpanAt(call.content, p)
             /\ Occurrences(call.content,
                            Slice(call.content, p + 3, p + 3 + KeyLen)) = 1)
            => ~Contains(ret.text, Slice(call.content, p + 3, p + 3 + KeyLen))

\* C4: redact_content is idempotent: a second pass over its own output
\* returns that output unchanged.
C4_RedactIdempotent ==
    (call.kind = "redact_content" /\ call.passes >= 2) =>
        ret.text = call.content

\* a second pass ran over an output in which a replacement token is joined
\* with text that begins another rule's pattern
C4_Witness ==
    /\ call.kind = "redact_content"
    /\ call.passes = 2
    /\ Contains(ret.text, <<"a","p","i","_","k","e","y","_">> \o ToolToken)

----------------------------------------------------------------------------
(* Paths.  An absolute path is the sequence of its segments below "/"; a   *)
(* relative path is the sequence of its segments.                          *)

PROJECT_ROOT   == << <<"s","r","v">>, <<"g","t","m">> >>
HOMEPAGE_ROOT  == PROJECT_ROOT \o << <<"h","o","m","e","p","a","g","e">> >>
COMPONENTS_DIR == HOMEPAGE_ROOT \o << <<"c","o","m","p","o","n","e","n","t","s">> >>
LIB_DIR        == HOMEPAGE_ROOT \o << <<"l","i","b">> >>

\* str(path) of an absolute path
PathStr(p) == <<"/">> \o Join(p, <<"/">>)
\* str(path) of a relative path
RelStr(p) == IF p = <<>> THEN <<".">> ELSE Join(p, <<"/">>)

IsPrefix(a, b) == Len(a) <= Len(b) /\ SubSeq(b, 1, Len(a)) = a
\* path.relative_to(base), where it does not raise ValueError
relative_to(p, base) == SubSeq(p, Len(base) + 1, Len(p))

\* path.parent
Parent(p) == SubSeq(p, 1, Len(p) - 1)
\* path.name
Name(p) == p[Len(p)]

\* name.rfind("."), 1-based, or 0
LastDot(name, i) ==
    LET dots == {j \in 1..i : name[j] = "."}
    IN  IF dots = {} THEN 0 ELSE Max(dots)
\* path.stem: the name without its last suffix
StemOf(name) ==
    LET i == LastDot(name, Len(name))
    IN  IF 1 < i /\ i < Len(name) THEN SubSeq(name, 1, i - 1) ELSE name
Stem(p) == StemOf(Name(p))

\* fnmatch(name, "*" + suffix)
EndsWith(name, suffix) ==
    /\ Len(name) >= Len(suffix)
    /\ SubSeq(name, Len(name) - Len(suffix) + 1, Len(name)) = suffix

RECURSIVE Normalize(_, _)
\* ".." segments resolved against the segments before them (no symlinks)
Normalize(done, rest) ==
    IF rest = <<>> THEN done
    ELSE IF Head(rest) = <<".",".">>
         THEN Normalize(IF done = <<>> THEN <<>> ELSE Parent(done), Tail(rest))
         ELSE Normalize(Append(done, Head(rest)), Tail(rest))
\* Path.resolve() of an absolute path
Resolve(p) == Normalize(<<>>, p)

\* the segments pathlib keeps of a string: "" and "." are dropped
Segments(s) == SelectSeq(Split(s, "/"), LAMBDA seg : seg # <<>> /\ seg # <<".">>)
\* base / s : an absolute s replaces base
JoinPath(base, s) ==
    IF s # <<>> /\ s[1] = "/" THEN Segments(s) ELSE base \o Segments(s)

----------------------------------------------------------------------------
(* The backing store                                                       *)

File(c) == [content |-> c, readable |-> TRUE]
\* a file read_text() fails on (no permission, not UTF-8)
Unreadable == [content |-> <<>>, readable |-> FALSE]

IsFile(fsv, p) == Resolve(p) \in DOMAIN fsv
IsDir(fsv, p) ==
    \/ IsPrefix(Resolve(p), HOMEPAGE_ROOT)
    \/ \E q \in DOMAIN fsv : Len(q) > Len(Resolve(p)) /\ IsPrefix(Resolve(p), q)
\* path.exists()
Exists(fsv, p) == IsFile(fsv, p) \/ IsDir(fsv, p)
\* path.read_text() succeeds
CanRead(fsv, p) == IsFile(fsv, p) /\ fsv[Resolve(p)].readable
\* path.read_text(), where it succeeds
read_text(fsv, p) == fsv[Resolve(p)].content

\* os.scandir order is taken to be the order of the names, character by
\* character in the order of Ascii
Ascii == << " ", "'", "-", ".", "/",
            "0","1","2","3","4","5","6","7","8","9",
            "A","B","C","D","E","F","G","H","I","J","K","L","M",
            "N","O","P","Q","R","S","T","U","V","W","X","Y","Z", "_",
            "a","b","c","d","e","f","g","h","i","j","k","l","m",
            "n","o","p","q","r","s","t","u","v","w","x","y","z" >>
CharRank == [c \in {Ascii[i] : i \in 1..Len(Ascii)} |->
                CHOOSE i \in 1..Len(Ascii) : Ascii[i] = c]
RECURSIVE NameLess(_, _)
NameLess(a, b) ==
    IF b = <<>> THEN FALSE
    ELSE IF a = <<>> THEN TRUE
    ELSE IF a[1] # b[1] THEN CharRank[a[1]] < CharRank[b[1]]
    ELSE NameLess(Tail(a), Tail(b))
RECURSIVE SortNames(_)
SortNames(names) ==
    IF names = {} THEN <<>>
    ELSE LET m == CHOOSE a \in names : \A b \in names \ {a} : NameLess(a, b)
         IN  <<m>> \o SortNames(names \ {m})

RECURSIVE Flatten(_)
Flatten(seqs) == IF seqs = <<>> THEN <<>> ELSE Head(seqs) \o Flatten(Tail(seqs))

RECURSIVE Rglob(_, _, _)
\* dir.rglob("*" + suffix): the matching entries of dir, then those of each
\* of its subdirectories in turn
Rglob(fsv, dir, suffix) ==
    LET below == {q \in DOMAIN fsv : Len(q) > Len(dir) /\ IsPrefix(dir, q)}
        here  == {Name(q) : q \in {r \in below : Len(r) = Len(dir) + 1}}
        subs  == {q[Len(dir) + 1] : q \in {r \in below : Len(r) > Len(dir) + 1}}
        files == SelectSeq(SortNames(here), LAMBDA n : EndsWith(n, suffix))
        dirs  == SortNames(subs)
    IN  [i \in 1..Len(files) |-> Append(dir, files[i])]
        \o Flatten([i \in 1..Len(dirs) |-> Rglob(fsv, Append(dir, dirs[i]), suffix)])

----------------------------------------------------------------------------
(* SecurityPolicy: exclusion                                               *)

\* what each pattern searches for, in lower case (re.search, re.IGNORECASE;
\* the .* around secret and private match the empty text)
EXCLUDED_PATTERNS ==
    << <<".","e","n","v">>, <<"s","e","c","r","e","t">>, <<"p","r","i","v","a","t","e">>, <<"p","e","r","s","o","n","a","s","/">>, <<"m","e","s","s","a","g","i","n","g","/">>,
       <<"i","n","t","e","r","n","a","l","-","d","o","c","s","/">>, <<"d","e","e","p"," ","r","e","s","e","a","r","c","h","/">>, <<"n","o","d","e","_","m","o","d","u","l","e","s","/">>, <<".","g","i","t","/">> >>

should_exclude_file(file_path) ==
    \E k \in 1..Len(EXCLUDED_PATTERNS) :
        ContainsI(PathStr(file_path), EXCLUDED_PATTERNS[k])

----------------------------------------------------------------------------
(* Categorizer                                                             *)

Sections    == <<"s","e","c","t","i","o","n","s">>
Navigation  == <<"n","a","v","i","g","a","t","i","o","n">>
Animations  == <<"a","n","i","m","a","t","i","o","n","s">>
Ui          == <<"u","i">>
Cosmic      == <<"c","o","s","m","i","c">>
Magicui     == <<"m","a","g","i","c","u","i">>
Experiments == <<"e","x","p","e","r","i","m","e","n","t","s">>
\* the keys of the categories dict, in the order they are inserted
CategoryOrder == << Sections, Navigation, Animations, Ui,
                    Cosmic, Magicui, Experiments >>
Categories == {CategoryOrder[i] : i \in 1..Len(CategoryOrder)}

InParts(seg, parts) == \E i \in 1..Len(parts) : parts[i] = seg

\* a categorizer that looks at the ui directory before the named ones
CategorizeUiFirst(file_path) ==
    LET parts == relative_to(file_path, COMPONENTS_DIR)
        stem  == Lower(Stem(file_path))
    IN  IF InParts(<<"u","i">>, parts) THEN
            IF Contains(stem, <<"s","e","c","t","i","o","n">>) THEN Sections
            ELSE IF Contains(stem, <<"a","n","i","m","a","t","i","o","n">>) THEN Animations
            ELSE Ui
        ELSE IF InParts(<<"c","o","s","m","i","c">>, parts) THEN Cosmic
        ELSE IF InParts(<<"m","a","g","i","c","u","i">>, parts) THEN Magicui
        ELSE IF InParts(<<"e","x","p","e","r","i","m","e","n","t","s">>, parts) THEN Experiments
        ELSE IF \/ Contains(stem, <<"n","a","v">>)
                \/ Contains(stem, <<"h","e","a","d","e","r">>)
                \/ Contains(stem, <<"f","o","o","t","e","r">>) THEN Navigation
        ELSE Ui

\* the category scan_components appends file_path to
Categorize(file_path) ==
    LET parts == relative_to(file_path, COMPONENTS_DIR)
        stem  == Lower(Stem(file_path))
    IN  IF InParts(<<"c","o","s","m","i","c">>, parts) THEN Cosmic
        ELSE IF InParts(<<"m","a","g","i","c","u","i">>, parts) THEN Magicui
        ELSE IF InParts(<<"e","x","p","e","r","i","m","e","n","t","s">>, parts) THEN Experiments
        ELSE IF InParts(<<"u","i">>, parts) THEN
            IF Contains(stem, <<"s","e","c","t","i","o","n">>) THEN Sections
            ELSE IF Contains(stem, <<"a","n","i","m","a","t","i","o","n">>) THEN Animations
            ELSE Ui
        ELSE IF \/ Contains(stem, <<"n","a","v">>)
                \/ Contains(stem, <<"h","e","a","d","e","r">>)
                \/ Contains(stem, <<"f","o","o","t","e","r">>) THEN Navigation
        ELSE Ui

\* the mapping of category to the files appended to it, in rglob order
scan_components(fsv) ==
    IF ~Exists(fsv, COMPONENTS_DIR) THEN [c \in Categories |-> <<>>]
    ELSE LET found == SelectSeq(Rglob(fsv, COMPONENTS_DIR, <<".","t","s","x">>),
                                LAMBDA p : ~should_exclude_file(p))
         IN  [c \in Categories |->
                 SelectSeq(found, LAMBDA p : Categorize(p) = c)]

----------------------------------------------------------------------------
(* scan_components over generated trees                                    *)

\* how deep below the components directory a generated file lies
MaxDepth == 2


RECURSIVE DirsUpTo(_)
DirsUpTo(n) ==
    IF n = 0 THEN { <<>> }
    ELSE LET shorter == DirsUpTo(n - 1)
         IN  shorter \cup { Append(d, s) : d \in shorter, s \in
               { <<"c","o","s","m","i","c">>, <<"m","a","g","i","c","u","i">>, <<"e","x","p","e","r","i","m","e","n","t","s">>, <<"u","i">>, <<"m","i","s","c">> } }

ScanPaths ==
    { COMPONENTS_DIR \o d \o << stem \o suffix >> :
        d \in DirsUpTo(MaxDepth), stem \in
            { <<"h","e","r","o","-","s","e","c","t","i","o","n">>, <<"F","a","d","e","A","n","i","m","a","t","i","o","n">>, <<"s","e","c","t","i","o","n","-","a","n","i","m","a","t","i","o","n">>, <<"n","a","v","b","a","r">>, <<"S","i","t","e","H","e","a","d","e","r">>, <<"f","o","o","t","e","r">>, <<"c","a","r","d">>, <<"m","y","-","s","e","c","r","e","t">> }, 
        suffix \in { <<".","t","s","x">>, <<".","t","s">> } }

NoGit == [trees |-> <<>>, log |-> <<>>, tags |-> <<>>]

InitScan ==
    /\ \E p \in ScanPaths, q \in {COMPONENTS_DIR \o << <<"u","i">>, <<"c","a","r","d",".","t","s","x">> >>} :
           fs = [r \in {p, q} |-> File(<<"<","p","/",">">>)]
    /\ git = NoGit
    /\ call = None
    /\ ret = None

\* scan_components()
CallScan ==
    /\ call = None
    /\ call' = [kind |-> "scan_components"]
    /\ ret' = [kind |-> "categories", categories |-> scan_components(fs)]
    /\ UNCHANGED <<fs, git>>

NextScan == CallScan

SpecScan == InitScan /\ [][NextScan]_vars

\* how many times p occurs in the sequence s
CountIn(s, p) == Cardinality({i \in 1..Len(s) : s[i] = p})

\* the category the tie-break policy gives a file, from the directory
\* segments and the stem of its path below the components directory
PolicyCategory(p) ==
    LET dirs == Parent(relative_to(p, COMPONENTS_DIR))
        has(word) == ContainsI(Stem(p), word)
    IN  CASE InParts(<<"c","o","s","m","i","c">>, dirs) -> Cosmic
          [] ~InParts(<<"c","o","s","m","i","c">>, dirs) /\ InParts(<<"m","a","g","i","c","u","i">>, dirs) -> Magicui
          [] /\ ~InParts(<<"c","o","s","m","i","c">>, dirs) /\ ~InParts(<<"m","a","g","i","c","u","i">>, dirs)
             /\ InParts(<<"e","x","p","e","r","i","m","e","n","t","s">>, dirs) -> Experiments
          [] OTHER ->
                IF InParts(<<"u","i">>, dirs)
                THEN (IF has(<<"s","e","c","t","i","o","n">>) THEN Sections
                      ELSE IF has(<<"a","n","i","m","a","t","i","o","n">>) THEN Animations ELSE Ui)
                ELSE (IF has(<<"n","a","v">>) \/ has(<<"h","e","a","d","e","r">>) \/ has(<<"f","o","o","t","e","r">>)
                      THEN Navigation ELSE Ui)

\* C8: scan_components places every non-excluded .tsx file under the
\* components directory in exactly one category, once, and that category
\* is the one the tie-break policy names: a cosmic, magicui or experiments
\* directory segment first (in that order), then under a ui directory the
\* stem (section, animation, else ui), elsewhere nav/header/footer in the
\* stem (navigation), else ui.  Keywords are looked for in the stem
\* whatever its case.  Excluded files and other suffixes are in no category.
C8_OneCategoryByPolicy ==
    (call.kind = "scan_components") =>
        \A p \in DOMAIN fs : \A c \in Categories :
            CountIn(ret.categories[c], p) =
                IF /\ EndsWith(Name(p), <<".","t","s","x">>)
                   /\ ~should_exclude_file(p)
                   /\ c = PolicyCategory(p)
                THEN 1 ELSE 0

\* a file with the stem of a section, below ui and below cosmic at once, was
\* scanned: the directory decided
C8_Witness ==
    /\ call.kind = "scan_components"
    /\ \E p \in DOMAIN fs :
        /\ Stem(p) = <<"h","e","r","o","-","s","e","c","t","i","o","n">>
        /\ InParts(<<"u","i">>, p) /\ InParts(<<"c","o","s","m","i","c">>, p)
        /\ CountIn(ret.categories[Cosmic], p) = 1

----------------------------------------------------------------------------
(* SpecExtractor: the five pattern classes of get_component_specs          *)

\* each literal of alts followed by "-"
WithDash(alts) == [k \in 1..Len(alts) |-> Append(alts[k], "-")]


\* (?:bg|text|border)-(?:slate|...|rose)-\d+
MatchColor(s, i) ==
    LET pre == FirstAlt(s, i, WithDash(<< <<"b","g">>, <<"t","e","x","t">>, <<"b","o","r","d","e","r">> >>))
    IN  IF pre = <<>> THEN 0
        ELSE LET col == FirstAlt(s, i + Len(pre),
                        WithDash(<< <<"s","l","a","t","e">>, <<"g","r","a","y">>, <<"z","i","n","c">>, <<"n","e","u","t","r","a","l">>, <<"s","t","o","n","e">>, <<"r","e","d">>, <<"o","r","a","n","g","e">>, <<"a","m","b","e","r">>, <<"y","e","l","l","o","w">>, <<"l","i","m","e">>, <<"g","r","e","e","n">>, <<"e","m","e","r","a","l","d">>, <<"t","e","a","l">>, <<"c","y","a","n">>, <<"s","k","y">>, <<"b","l","u","e">>, <<"i","n","d","i","g","o">>, <<"v","i","o","l","e","t">>, <<"p","u","r","p","l","e">>, <<"f","u","c","h","s","i","a">>, <<"p","i","n","k">>, <<"r","o","s","e">> >>))
                 d   == i + Len(pre) + Len(col)
                 e   == RunEnd(s, d, Digit)
             IN  IF col # <<>> /\ e > d THEN e ELSE 0

\* animate-[\w-]+
MatchAnimation(s, i) ==
    LET d == i + 8
        e == RunEnd(s, d, WordCh \cup {"-"})
    IN  IF StartsWithAt(s, i, <<"a","n","i","m","a","t","e","-">>) /\ e > d THEN e ELSE 0

\* rounded-(?:none|sm|md|lg|xl|2xl|3xl|full|\d+)
MatchBorder(s, i) ==
    IF ~StartsWithAt(s, i, <<"r","o","u","n","d","e","d","-">>) THEN 0
    ELSE LET d    == i + 8
             size == FirstAlt(s, d,
                        << <<"n","o","n","e">>, <<"s","m">>, <<"m","d">>, <<"l","g">>, <<"x","l">>, <<"2","x","l">>, <<"3","x","l">>, <<"f","u","l","l">> >>)
             e    == RunEnd(s, d, Digit)
         IN  IF size # <<>> THEN d + Len(size)
             ELSE IF e > d THEN e ELSE 0

\* (?:p|m|px|py|pl|pr|pt|pb|mx|my|ml|mr|mt|mb)-\d+
MatchSpacing(s, i) ==
    LET pre == FirstAlt(s, i, WithDash(<< <<"p">>, <<"m">>, <<"p","x">>, <<"p","y">>, <<"p","l">>, <<"p","r">>, <<"p","t">>, <<"p","b">>, <<"m","x">>, <<"m","y">>, <<"m","l">>, <<"m","r">>, <<"m","t">>, <<"m","b">> >>))
        d   == i + Len(pre)
        e   == RunEnd(s, d, Digit)
    IN  IF pre # <<>> /\ e > d THEN e ELSE 0

\* text-(?:xs|sm|base|lg|xl|2xl|...|9xl)
MatchFont(s, i) ==
    IF ~StartsWithAt(s, i, <<"t","e","x","t","-">>) THEN 0
    ELSE LET size == FirstAlt(s, i + 5,
                      << <<"x","s">>, <<"s","m">>, <<"b","a","s","e">>, <<"l","g">>, <<"x","l">>, <<"2","x","l">>, <<"3","x","l">>, <<"4","x","l">>, <<"5","x","l">>, <<"6","x","l">>, <<"7","x","l">>, <<"8","x","l">>, <<"9","x","l">> >>)
         IN  IF size # <<>> THEN i + 5 + Len(size) ELSE 0

\* Python's {}
EmptyDict == [k \in {} |-> {}]

SpecKeys == {"colors", "animations", "borders", "spacing", "fonts"}

MatchSpec(key, s, i) ==
    CASE key = "colors"     -> MatchColor(s, i)
      [] key = "animations" -> MatchAnimation(s, i)
      [] key = "borders"    -> MatchBorder(s, i)
      [] key = "spacing"    -> MatchSpacing(s, i)
      [] key = "fonts"      -> MatchFont(s, i)

RECURSIVE FindAllFrom(_, _, _)
\* set(re.findall(pattern, s[i:])), the pattern that of key
FindAllFrom(key, s, i) ==
    LET hits == {j \in i..Len(s) : MatchSpec(key, s, j) > 0}
    IN  IF hits = {} THEN {}
        ELSE LET j == Min(hits)
                 e == MatchSpec(key, s, j)
             IN  {Slice(s, j, e)} \cup FindAllFrom(key, s, e)
\* the specs of a text: one set of tokens per pattern class
ExtractSpecs(content) == [key \in SpecKeys |-> FindAllFrom(key, content, 1)]

\* get_component_specs(file_path): {} when the file cannot be read
get_component_specs(fsv, file_path) ==
    IF CanRead(fsv, file_path) THEN ExtractSpecs(read_text(fsv, file_path))
    ELSE EmptyDict

----------------------------------------------------------------------------
(* Imports: get_component_dependencies                                     *)

Quote == {"'", "\""}

NoImport == [end |-> 0, group |-> <<>>]

\* where the [^'"]+ of a specifier that starts at g starts: after @/, or
\* after \.+/ whose dots end at d; 0 when the specifier is neither
SpecifierTail(s, g, d) ==
    IF StartsWithAt(s, g, <<"@","/">>) THEN g + 2
    ELSE IF d > g /\ d <= Len(s) /\ s[d] = "/" THEN d + 1
    ELSE 0

\* (@/[^'"]+|\.+/[^'"]+)['"]  at g, its [^'"]+ starting at tail
SpecifierFrom(s, g, tail) ==
    IF /\ tail > 0
       /\ RunEndNot(s, tail, Quote) > tail
       /\ RunEndNot(s, tail, Quote) <= Len(s)
    THEN [end   |-> RunEndNot(s, tail, Quote) + 1,
          group |-> Slice(s, g, RunEndNot(s, tail, Quote))]
    ELSE NoImport

\* from\s+['"](...)['"]  at a, the \s+ after from ending at b
FromClause(s, a, b) ==
    IF /\ StartsWithAt(s, a, <<"f","r","o","m">>)
       /\ b > a + 4
       /\ b <= Len(s) /\ s[b] \in Quote
    THEN SpecifierFrom(s, b + 1, SpecifierTail(s, b + 1, RunEnd(s, b + 1, {"."})))
    ELSE NoImport

\* the from clause after the whitespace p .. a-1
SpacesThenFrom(s, p, a) ==
    IF a > p THEN FromClause(s, a, RunEnd(s, a + 4, Space)) ELSE NoImport

\* \s+from\s+['"](@/[^'"]+|\.+/[^'"]+)['"]  at p
MatchFromClause(s, p) == SpacesThenFrom(s, p, RunEnd(s, p, Space))

\* the lazy .*? : the nearest p, on the same line, where the from clause matches
FirstFromClause(s, p) ==
    LET hits == {q \in p..RunEndNot(s, p, {"\n"}) :
                    MatchFromClause(s, q).end > 0}
    IN  IF hits = {} THEN NoImport ELSE MatchFromClause(s, Min(hits))

\* the match m, or other when m is no match
OrElse(m, other) == IF m.end > 0 THEN m ELSE other

RECURSIVE ImportAfterSpaces(_, _, _)
\* import\s+ taking k whitespace characters, the most first
ImportAfterSpaces(s, i, k) ==
    IF k = 0 THEN NoImport
    ELSE OrElse(FirstFromClause(s, i + 6 + k), ImportAfterSpaces(s, i, k - 1))

\* import\s+.*?\s+from\s+['"](@/[^'"]+|\.+/[^'"]+)['"]  at i
MatchImport(s, i) ==
    IF ~StartsWithAt(s, i, <<"i","m","p","o","r","t">>) THEN NoImport
    ELSE ImportAfterSpaces(s, i, RunEnd(s, i + 6, Space) - (i + 6))

\* the first match the scan finds from i on
NextImport(s, i) ==
    LET hits == {j \in i..Len(s) : MatchImport(s, j).end > 0}
    IN  IF hits = {} THEN NoImport ELSE MatchImport(s, Min(hits))

RECURSIVE ImportsAfter(_, _)
\* the specifiers of match m and of the matches the scan finds after it
ImportsAfter(s, m) ==
    IF m.end = 0 THEN <<>>
    ELSE <<m.group>> \o ImportsAfter(s, NextImport(s, m.end))

\* re.findall(import_pattern, content): the specifiers, in order
FindImports(content) == ImportsAfter(content, NextImport(content, 1))

\* the path an import specifier of file_path stands for
DepPath(file_path, match) ==
    IF StartsWithAt(match, 1, <<"@","/">>)
    THEN JoinPath(HOMEPAGE_ROOT, SubSeq(match, 3, Len(match)))
    ELSE Resolve(JoinPath(Parent(file_path), match))

\* dep_path.relative_to(PROJECT_ROOT) does not raise
InsideRoot(dep_path) == IsPrefix(PROJECT_ROOT, dep_path)

\* the paths the import specifiers of file_path stand for
DepPaths(file_path, matches) ==
    [k \in 1..Len(matches) |-> DepPath(file_path, matches[k])]

\* str(dep_path.relative_to(PROJECT_ROOT)) of each: nothing at all as soon
\* as one of them raises
RelativeToRoot(deps) ==
    IF \A k \in 1..Len(deps) : InsideRoot(deps[k])
    THEN [k \in 1..Len(deps) |-> RelStr(relative_to(deps[k], PROJECT_ROOT))]
    ELSE <<>>

\* the dependencies of a text found at file_path
DependenciesOf(file_path, content) ==
    RelativeToRoot(DepPaths(file_path, FindImports(content)))

\* get_component_dependencies(file_path): [] when the file cannot be read
get_component_dependencies(fsv, file_path) ==
    IF CanRead(fsv, file_path)
    THEN DependenciesOf(file_path, read_text(fsv, file_path))
    ELSE <<>>

----------------------------------------------------------------------------
(* LocalVersionedSource: the version-control object store                  *)

\* get_file_at_version returned None
NoContent == [found |-> FALSE, text |-> <<>>]

\* get_file_at_version(file_path, version): `git show version:rel_path`,
\* redacted, or None when git fails
get_file_at_version(gitv, file_path, version) ==
    IF /\ IsPrefix(PROJECT_ROOT, file_path)
       /\ version \in DOMAIN gitv.trees
       /\ relative_to(file_path, PROJECT_ROOT) \in DOMAIN gitv.trees[version]
    THEN [found |-> TRUE,
          text  |-> redact_content(
                      gitv.trees[version][relative_to(file_path, PROJECT_ROOT)])]
    ELSE NoContent

\* s.strip()
Strip(s) ==
    LET inked == {j \in 1..Len(s) : s[j] \notin Space}
    IN  IF inked = {} THEN <<>> ELSE SubSeq(s, Min(inked), Max(inked))

\* the entries get_git_versions makes of git's output, one per line that
\* holds at least two |-separated parts
ParseVersions(stdout) ==
    LET lines == SelectSeq(Split(Strip(stdout), "\n"), LAMBDA l : l # <<>>)
        rows  == [k \in 1..Len(lines) |-> Split(lines[k], "|")]
        kept  == SelectSeq(rows, LAMBDA r : Len(r) >= 2)
    IN  [k \in 1..Len(kept) |->
            [version |-> kept[k][1],
             date    |-> kept[k][2],
             message |-> IF Len(kept[k]) > 2 THEN kept[k][3] ELSE <<>>]]

\* no file: the None of an Optional[Path]
NoFile == <<>>

\* get_git_versions(file_path): `git log` of the file, or `git tag -l`
get_git_versions(gitv, file_path) ==
    IF file_path # NoFile
    THEN ParseVersions(IF file_path \in DOMAIN gitv.log
                       THEN gitv.log[file_path] ELSE <<>>)
    ELSE ParseVersions(gitv.tags)

----------------------------------------------------------------------------
(* CatalogService: call_tool                                               *)

\* json.dumps of a mapping, kept as the mapping
Result(doc) == [kind |-> "result", doc |-> doc]
\* an exception leaving the handler
Raise(exc) == [kind |-> "raise", exc |-> exc]

\* arguments.get(key, default)
Get(args, key, default) == IF key \in DOMAIN args THEN args[key] ELSE default
\* arguments.get(key) is a non-empty text
HasText(args, key) == key \in DOMAIN args /\ args[key] # <<>>

NotFoundMsg(name) == <<"C","o","m","p","o","n","e","n","t"," ","'">> \o name \o <<"'"," ","n","o","t"," ","f","o","u","n","d">>

\* the files of every category, in the order of the dict
AllComponents(components) ==
    Flatten([k \in 1..Len(CategoryOrder) |-> components[CategoryOrder[k]]])

\* a lookup by name that takes the last of files whose stem is name
LastNamed(files, name) ==
    IF \E k \in 1..Len(files) : Stem(files[k]) = name
    THEN files[Max({k \in 1..Len(files) : Stem(files[k]) = name})]
    ELSE NoFile

\* the first of files whose stem is name, or None
FirstNamed(files, name) ==
    IF \E k \in 1..Len(files) : Stem(files[k]) = name
    THEN files[Min({k \in 1..Len(files) : Stem(files[k]) = name})]
    ELSE NoFile

\* the first file whose stem is name, or None
FindComponent(components, name) == FirstNamed(AllComponents(components), name)

RelToComponents(files) ==
    [k \in 1..Len(files) |-> RelStr(relative_to(files[k], COMPONENTS_DIR))]

list_components(fsv, args) ==
    LET category   == Get(args, "category", <<"a","l","l">>)
        components == scan_components(fsv)
        listed     == IF category = <<"a","l","l">>
                      THEN [c \in Categories |-> RelToComponents(components[c])]
                      ELSE IF category \in Categories
                      THEN [c \in {category} |-> RelToComponents(components[c])]
                      ELSE EmptyDict
    IN  IF HasText(args, "version")
        THEN Result([components |-> listed, version |-> args["version"],
                     note |-> <<"S","h","o","w","i","n","g"," ","c","o","m","p","o","n","e","n","t","s"," ","a","t"," ","v","e","r","s","i","o","n",":"," ">>
                              \o args["version"]])
        ELSE Result([components |-> listed])

\* the response get_component makes of the content it settled on
ComponentResult(fsv, component_name, version, include_deps, component_file, content) ==
    IF include_deps
    THEN Result([name |-> component_name,
                 path |-> RelStr(relative_to(component_file, PROJECT_ROOT)),
                 version |-> version, content |-> content,
                 specs |-> get_component_specs(fsv, component_file),
                 dependencies |->
                     get_component_dependencies(fsv, component_file)])
    ELSE Result([name |-> component_name,
                 path |-> RelStr(relative_to(component_file, PROJECT_ROOT)),
                 version |-> version, content |-> content,
                 specs |-> get_component_specs(fsv, component_file)])

\* content = get_file_at_version(...); if not content: the working tree's
ComponentAtVersion(fsv, component_name, version, include_deps, component_file, at_version) ==
    IF at_version.found /\ at_version.text # <<>>
    THEN ComponentResult(fsv, component_name, version, include_deps,
                         component_file, at_version.text)
    ELSE IF ~CanRead(fsv, component_file) THEN Raise("OSError")
    ELSE ComponentResult(fsv, component_name, version, include_deps,
                         component_file,
                         redact_content(read_text(fsv, component_file)))

\* the response for component_file, the file found for component_name
ComponentDocument(fsv, gitv, component_name, version, include_deps, component_file) ==
    IF component_file = NoFile
    THEN Result([error |-> NotFoundMsg(component_name)])
    ELSE ComponentAtVersion(fsv, component_name, version, include_deps,
             component_file,
             get_file_at_version(gitv, component_file, version))

get_component(fsv, gitv, args) ==
    IF "name" \notin DOMAIN args THEN Raise("KeyError")
    ELSE ComponentDocument(fsv, gitv, args["name"],
             Get(args, "version", <<"H","E","A","D">>),
             Get(args, "include_dependencies", TRUE),
             FindComponent(scan_components(fsv), args["name"]))

\* specs, or the one property of it that is asked for
FilterSpecs(specs, property_filter) ==
    IF property_filter = "all" THEN specs
    ELSE [k \in {property_filter} |-> Get(specs, property_filter, {})]

\* the response for component_file, the file found for component_name
SpecsDocument(fsv, component_name, property_filter, component_file) ==
    IF component_file = NoFile
    THEN Result([error |-> NotFoundMsg(component_name)])
    ELSE Result([component |-> component_name,
                 specs |-> FilterSpecs(get_component_specs(fsv, component_file),
                                       property_filter)])

get_component_specs_tool(fsv, args) ==
    IF "name" \notin DOMAIN args THEN Raise("KeyError")
    ELSE SpecsDocument(fsv, args["name"], Get(args, "property", "all"),
                       FindComponent(scan_components(fsv), args["name"]))

\* result["version_range"] = version_range, if version_range:
WithRange(args, doc) ==
    IF HasText(args, "version_range")
    THEN [k \in DOMAIN doc \cup {"version_range"} |->
             IF k = "version_range" THEN args["version_range"] ELSE doc[k]]
    ELSE doc

\* the changelog of component_file, the file found for component
ComponentChangelog(gitv, args, component, component_file) ==
    IF component_file = NoFile
    THEN Result([error |-> NotFoundMsg(component)])
    ELSE Result(WithRange(args,
            [component |-> component,
             changelog |-> get_git_versions(gitv, component_file)]))

get_changelog(fsv, gitv, args) ==
    IF HasText(args, "component")
    THEN ComponentChangelog(gitv, args, args["component"],
             FindComponent(scan_components(fsv), args["component"]))
    ELSE Result(WithRange(args,
             [project |-> <<"g","t","m","-","l","a","b","s">>,
              releases |-> get_git_versions(gitv, NoFile)]))

\* the entry search_components appends for file_path, or nothing
SearchEntry(fsv, query, category, file_path) ==
    LET entry == [name |-> Stem(file_path), category |-> category,
                  path |-> RelStr(relative_to(file_path, PROJECT_ROOT))]
    IN  IF Contains(Lower(Stem(file_path)), query) THEN << entry >>
        ELSE IF /\ CanRead(fsv, file_path)
                /\ Contains(Lower(read_text(fsv, file_path)), query)
        THEN << [name |-> entry.name, category |-> entry.category,
                 path |-> entry.path, match |-> "content"] >>
        ELSE <<>>

search_components(fsv, args) ==
    IF "query" \notin DOMAIN args THEN Raise("KeyError")
    ELSE
    LET query      == Lower(args["query"])
        components == scan_components(fsv)
        of(c)      == Flatten([k \in 1..Len(components[c]) |->
                                  SearchEntry(fsv, query, c, components[c][k])])
    IN  Result([query |-> query,
                results |-> Flatten([k \in 1..Len(CategoryOrder) |->
                                        of(CategoryOrder[k])])])

create_scaffold(args) ==
    IF "template" \notin DOMAIN args \/ "output_path" \notin DOMAIN args
    THEN Raise("KeyError")
    ELSE Result([template |-> args["template"],
                 output_path |-> args["output_path"],
                 structure |-> "app/ components/ lib/ public/",
                 configs |-> "package.json tailwind.config.ts next.config.ts tsconfig.json",
                 components_to_include |-> Get(args, "components", <<>>),
                 note |-> "Use this data to create the scaffold structure. Copy files from GTM Labs project to output_path."])

call_tool(fsv, gitv, name, arguments) ==
    CASE name = "list_components"     -> list_components(fsv, arguments)
      [] name = "get_component"       -> get_component(fsv, gitv, arguments)
      [] name = "get_component_specs" -> get_component_specs_tool(fsv, arguments)
      [] name = "get_changelog"       -> get_changelog(fsv, gitv, arguments)
      [] name = "search_components"   -> search_components(fsv, arguments)
      [] name = "create_scaffold"     -> create_scaffold(arguments)
      [] OTHER                        -> Result([error |-> <<"U","n","k","n","o","w","n"," ","t","o","o","l">>])

----------------------------------------------------------------------------
(* The resource channel: list_resources and read_resource                  *)

Scheme == <<"g","t","m","-","l","a","b","s",":","/","/">>

\* s.replace(old, ""), every occurrence
RECURSIVE Remove(_, _)
Remove(s, old) ==
    LET hits == {j \in 1..Len(s) : StartsWithAt(s, j, old)}
    IN  IF hits = {} THEN s
        ELSE Slice(s, 1, Min(hits))
             \o Remove(Slice(s, Min(hits) + Len(old), Len(s) + 1), old)

Resource(uri, name, mimeType, description) ==
    [uri |-> uri, name |-> name, mimeType |-> mimeType,
     description |-> description]

CONFIG_FILES ==
    << [file_name |-> <<"t","a","i","l","w","i","n","d",".","c","o","n","f","i","g",".","t","s">>,
        description |-> <<"C","o","n","f","i","g",":"," ","T","a","i","l","w","i","n","d"," ","c","o","n","f","i","g","u","r","a","t","i","o","n">>],
       [file_name |-> <<"n","e","x","t",".","c","o","n","f","i","g",".","t","s">>,
        description |-> <<"C","o","n","f","i","g",":"," ","N","e","x","t",".","j","s"," ","c","o","n","f","i","g","u","r","a","t","i","o","n">>],
       [file_name |-> <<"p","a","c","k","a","g","e",".","j","s","o","n">>,
        description |-> <<"C","o","n","f","i","g",":"," ","P","a","c","k","a","g","e"," ","d","e","p","e","n","d","e","n","c","i","e","s">>] >>

ComponentResources(components, category) ==
    [k \in 1..Len(components[category]) |->
        LET name == Stem(components[category][k])
        IN  Resource(Scheme \o <<"c","o","m","p","o","n","e","n","t","s","/">> \o category \o <<"/">> \o name,
                     category \o <<"/">> \o name,
                     "text/typescript",
                     <<"C","o","m","p","o","n","e","n","t",":"," ">> \o name \o <<" ","f","r","o","m"," ">> \o category)]

ConfigResources(fsv) ==
    LET present == SelectSeq(CONFIG_FILES,
                     LAMBDA f : Exists(fsv, JoinPath(HOMEPAGE_ROOT, f.file_name)))
    IN  [k \in 1..Len(present) |->
            Resource(Scheme \o <<"c","o","n","f","i","g","/">> \o present[k].file_name,
                     present[k].file_name,
                     IF EndsWith(present[k].file_name, <<".","j","s","o","n">>)
                     THEN "application/json" ELSE "text/typescript",
                     present[k].description)]

\* LIB_DIR.glob("*.ts"), the files that are not excluded
LibResources(fsv) ==
    LET names == {Name(q) : q \in {r \in DOMAIN fsv : Parent(r) = LIB_DIR}}
        found == SelectSeq(SortNames(names),
                     LAMBDA n : /\ EndsWith(n, <<".","t","s">>)
                                /\ ~should_exclude_file(Append(LIB_DIR, n)))
    IN  [k \in 1..Len(found) |->
            Resource(Scheme \o <<"l","i","b","/">> \o StemOf(found[k]),
                     StemOf(found[k]),
                     "text/typescript",
                     <<"L","i","b","r","a","r","y",":"," ">> \o StemOf(found[k]))]

list_resources(fsv) ==
    LET components == scan_components(fsv)
    IN  [kind |-> "resources",
         resources |->
            Flatten([k \in 1..Len(CategoryOrder) |->
                        ComponentResources(components, CategoryOrder[k])])
            \o ConfigResources(fsv)
            \o LibResources(fsv)
            \o << Resource(Scheme \o <<"s","c","a","f","f","o","l","d","s","/","n","e","x","t","j","s","-","f","u","l","l","-","p","r","o","j","e","c","t">>,
                    <<"n","e","x","t","j","s","-","f","u","l","l","-","p","r","o","j","e","c","t">>,
                    "application/json",
                    <<"S","c","a","f","f","o","l","d",":"," ","F","u","l","l"," ","N","e","x","t",".","j","s"," ","p","r","o","j","e","c","t"," ","w","i","t","h"," ","G","T","M"," ","L","a","b","s"," ","s","t","r","u","c","t","u","r","e">>) >>]

NotFoundText == Text(<<"R","e","s","o","u","r","c","e"," ","n","o","t"," ","f","o","u","n","d">>)

\* path.read_text(), redacted; the exception when it cannot be read
ReadRedacted(fsv, file_path) ==
    IF CanRead(fsv, file_path)
    THEN Text(redact_content(read_text(fsv, file_path)))
    ELSE Raise("OSError")

\* the component of category whose stem is name, redacted
ReadComponent(fsv, files, name) ==
    IF FirstNamed(files, name) # NoFile
    THEN ReadRedacted(fsv, FirstNamed(files, name))
    ELSE NotFoundText

\* the file at file_path, redacted, when there is one
ReadIfExists(fsv, file_path) ==
    IF Exists(fsv, file_path) THEN ReadRedacted(fsv, file_path)
    ELSE NotFoundText

\* the response to the parts of a uri
ReadParts(fsv, parts) ==
    IF parts[1] = <<"c","o","m","p","o","n","e","n","t","s">> THEN
        IF Len(parts) < 3 THEN Raise("IndexError")
        ELSE IF parts[2] \in Categories
        THEN ReadComponent(fsv, scan_components(fsv)[parts[2]], parts[3])
        ELSE NotFoundText
    ELSE IF parts[1] = <<"c","o","n","f","i","g">> THEN
        IF Len(parts) < 2 THEN Raise("IndexError")
        ELSE ReadIfExists(fsv, JoinPath(HOMEPAGE_ROOT, parts[2]))
    ELSE IF parts[1] = <<"l","i","b">> THEN
        IF Len(parts) < 2 THEN Raise("IndexError")
        ELSE ReadIfExists(fsv, JoinPath(LIB_DIR, parts[2] \o <<".","t","s">>))
    ELSE IF parts[1] = <<"s","c","a","f","f","o","l","d","s">> THEN
        IF Len(parts) < 2 THEN Raise("IndexError")
        ELSE Result([scaffold |-> parts[2],
                     message |-> "Use the create_scaffold tool to generate this scaffold"])
    ELSE NotFoundText

read_resource(fsv, uri) == ReadParts(fsv, Split(Remove(uri, Scheme), "/"))

----------------------------------------------------------------------------
(* The project the server runs on, and the requests it is sent             *)

\* how many files the working tree holds at once
MaxFiles == 3

HeroFile    == COMPONENTS_DIR \o << <<"u","i">>, <<"h","e","r","o","-","s","e","c","t","i","o","n",".","t","s","x">> >>
NavbarFile  == COMPONENTS_DIR \o << <<"n","a","v","b","a","r",".","t","s","x">> >>

HeroNew == <<"i","m","p","o","r","t"," ","a"," ","f","r","o","m"," ","'","@","/","l","i","b","/","u","t","i","l","s","'","\n","i","m","p","o","r","t"," ","b"," ","f","r","o","m"," ","'",".",".","/",".",".","/",".",".","/",".",".","/","x","'","\n","<","p"," ","c","l","a","s","s","=","\"","b","g","-","r","e","d","-","5","0","0"," ","a","n","i","m","a","t","e","-","M","y","M","a","r","k","y"," ","p","-","4","\"",">">>
HeroOld == <<"i","m","p","o","r","t"," ","c"," ","f","r","o","m"," ","'",".","/","o","l","d","'","\n","<","p"," ","c","l","a","s","s","=","\"","b","g","-","b","l","u","e","-","5","0","0"," ","t","e","x","t","-","x","l","\"",">">>
NavbarText  == <<"<","n","a","v",">","U","s","e","Q","u","e","u","e"," ","a","p","i","_","k","e","y","_","A","1","b","2","<","/","n","a","v",">">>

\* the files a working tree may hold, each with the states it may be in
FileChoices ==
    (HeroFile :> {File(HeroNew), File(HeroOld)})
    @@ (NavbarFile :> {File(NavbarText), Unreadable})
    @@ (COMPONENTS_DIR \o << <<"c","o","s","m","i","c">>, <<"h","e","r","o","-","s","e","c","t","i","o","n",".","t","s","x">> >>
           :> {File(<<"<","b"," ","c","l","a","s","s","=","\"","r","o","u","n","d","e","d","-","2","x","l","\"",">">>)})
    @@ (COMPONENTS_DIR \o << <<"u","i">>, <<"s","e","c","r","e","t","-","p","a","n","e","l",".","t","s","x">> >>
           :> {File(<<"<","i",">","U","s","e","Q","u","e","u","e"," ","p","l","a","n","<","/","i",">">>)})
    @@ (HOMEPAGE_ROOT \o << <<"p","a","c","k","a","g","e",".","j","s","o","n">> >>
           :> {File(<<"{","\"","n","a","m","e","\"",":","\"","g","t","m","\"","}">>)})
    @@ (HOMEPAGE_ROOT \o << <<".","e","n","v">> >> :> {File(<<"T","O","K","E","N","=","a","b","c">>)})
    @@ (LIB_DIR \o << <<"u","t","i","l","s",".","t","s">> >> :> {File(<<"e","x","p","o","r","t"," ","c","o","n","s","t"," ","c","n"," ","="," ","1">>)})
    @@ (LIB_DIR \o << <<"p","r","i","v","a","t","e",".","t","s">> >> :> {File(<<"e","x","p","o","r","t"," ","c","o","n","s","t"," ","p","w"," ","="," ","2">>)})

V1   == <<"v","1">>
HEAD == <<"H","E","A","D">>

\* a history: the hero section was rewritten after v1, the navbar added
History ==
    [trees |-> [v \in {HEAD, V1} |->
                   IF v = HEAD
                   THEN [p \in {relative_to(HeroFile, PROJECT_ROOT),
                                relative_to(NavbarFile, PROJECT_ROOT)} |->
                            IF p = relative_to(HeroFile, PROJECT_ROOT)
                            THEN HeroNew ELSE NavbarText]
                   ELSE [p \in {relative_to(HeroFile, PROJECT_ROOT)} |-> HeroOld]],
     log   |-> [p \in {HeroFile} |->
                   <<"c","2","|","2","0","2","4","-","0","2","-","0","1"," ","1","0",":","0","0",":","0","0"," ","+","0","0","0","0","|","f","e","a","t",":"," ","h","e","r","o"," ","|"," ","v","2","\n","c","1","|","2","0","2","4","-","0","1","-","0","1"," ","1","0",":","0","0",":","0","0"," ","+","0","0","0","0","|","i","n","i","t","\n">>],
     tags  |-> <<"v","1","|","2","0","2","4","-","0","1","-","0","1"," ","1","0",":","0","0",":","0","0"," ","+","0","0","0","0","|","f","i","r","s","t","\n">>]

ComponentNames == { <<"h","e","r","o","-","s","e","c","t","i","o","n">>, <<"n","a","v","b","a","r">>, <<"s","e","c","r","e","t","-","p","a","n","e","l">>, <<"g","h","o","s","t">> }

ToolCalls ==
    {[name |-> "list_components", arguments |-> a] :
        a \in {EmptyDict, [category |-> Ui],
               [category |-> <<"b","o","g","u","s">>, version |-> V1]}}
    \cup {[name |-> "get_component", arguments |-> [name |-> n]] :
            n \in ComponentNames}
    \cup {[name |-> "get_component",
           arguments |-> [name |-> n, version |-> v]] :
            n \in ComponentNames, v \in {V1, <<"v","0">>, <<"l","a","t","e","s","t">>}}
    \cup {[name |-> "get_component", arguments |-> a] :
            a \in {EmptyDict,
                   [name |-> <<"h","e","r","o","-","s","e","c","t","i","o","n">>, version |-> V1,
                    include_dependencies |-> FALSE]}}
    \cup {[name |-> "get_component_specs", arguments |-> a] :
            a \in {EmptyDict,
                   [name |-> <<"h","e","r","o","-","s","e","c","t","i","o","n">>],
                   [name |-> <<"h","e","r","o","-","s","e","c","t","i","o","n">>, property |-> "colors"],
                   [name |-> <<"h","e","r","o","-","s","e","c","t","i","o","n">>, property |-> "bogus"],
                   [name |-> <<"n","a","v","b","a","r">>],
                   [name |-> <<"g","h","o","s","t">>]}}
    \cup {[name |-> "get_changelog", arguments |-> a] :
            a \in {EmptyDict,
                   [component |-> <<"h","e","r","o","-","s","e","c","t","i","o","n">>],
                   [component |-> <<"g","h","o","s","t">>],
                   [component |-> <<"h","e","r","o","-","s","e","c","t","i","o","n">>,
                    version_range |-> <<"v","1",".",".","v","2">>]}}
    \cup {[name |-> "search_components", arguments |-> a] :
            a \in {EmptyDict,
                   [query |-> <<"N","a","v">>],
                   [query |-> <<"u","s","e","q","u","e","u","e">>],
                   [query |-> <<"r","e","d","a","c","t","e","d">>],
                   [query |-> <<"h","e","r","o">>]}}
    \cup {[name |-> "create_scaffold", arguments |-> a] :
            a \in {[template |-> <<"l","a","n","d","i","n","g","-","p","a","g","e">>],
                   [template |-> <<"l","a","n","d","i","n","g","-","p","a","g","e">>, output_path |-> <<"/","t","m","p","/","o","u","t">>]}}
    \cup {[name |-> "no_such_tool", arguments |-> EmptyDict]}

ResourceUris ==
    { Scheme \o u : u \in
        { <<"c","o","m","p","o","n","e","n","t","s","/","s","e","c","t","i","o","n","s","/","h","e","r","o","-","s","e","c","t","i","o","n">>,
          <<"c","o","m","p","o","n","e","n","t","s","/","c","o","s","m","i","c","/","h","e","r","o","-","s","e","c","t","i","o","n">>,
          <<"c","o","m","p","o","n","e","n","t","s","/","n","a","v","i","g","a","t","i","o","n","/","n","a","v","b","a","r">>,
          <<"c","o","m","p","o","n","e","n","t","s","/","u","i","/","s","e","c","r","e","t","-","p","a","n","e","l">>,
          <<"c","o","m","p","o","n","e","n","t","s">>,
          <<"c","o","n","f","i","g","/","p","a","c","k","a","g","e",".","j","s","o","n">>,
          <<"c","o","n","f","i","g","/",".","e","n","v">>,
          <<"c","o","n","f","i","g","/",".",".">>,
          <<"l","i","b","/","u","t","i","l","s">>,
          <<"l","i","b","/","p","r","i","v","a","t","e">>,
          <<"s","c","a","f","f","o","l","d","s","/","n","e","x","t","j","s","-","f","u","l","l","-","p","r","o","j","e","c","t">>,
          <<"d","o","c","s","/","r","e","a","d","m","e">> } }

----------------------------------------------------------------------------
(* The server: one request is served to completion, then answered          *)

\* what the handler of request req returns, or raises, over a store
Serve(fsv, gitv, req) ==
    CASE req.kind = "call_tool" ->
            call_tool(fsv, gitv, req.name, req.arguments)
      [] req.kind = "read_resource" -> read_resource(fsv, req.uri)
      [] req.kind = "list_resources" -> list_resources(fsv)

Init ==
    /\ fs = <<>>
    /\ git \in {NoGit, History}
    /\ call = None
    /\ ret = None

\* a call_tool that answers from the enumeration made at start-up, when the
\* working tree was still empty
CallToolFromStartup(name, arguments) ==
    /\ call = None
    /\ call' = [kind |-> "call_tool", name |-> name, arguments |-> arguments]
    /\ ret' = call_tool(<<>>, git, name, arguments)
    /\ UNCHANGED <<fs, git>>

\* call_tool(name, arguments)
CallTool(name, arguments) ==
    /\ call = None
    /\ call' = [kind |-> "call_tool", name |-> name, arguments |-> arguments]
    /\ ret' = call_tool(fs, git, name, arguments)
    /\ UNCHANGED <<fs, git>>

\* read_resource(uri)
ReadResource(uri) ==
    /\ call = None
    /\ call' = [kind |-> "read_resource", uri |-> uri]
    /\ ret' = read_resource(fs, uri)
    /\ UNCHANGED <<fs, git>>

\* list_resources()
ListResources ==
    /\ call = None
    /\ call' = [kind |-> "list_resources"]
    /\ ret' = list_resources(fs)
    /\ UNCHANGED <<fs, git>>

\* the protocol layer sends the answer; the server waits for the next request
Return ==
    /\ call # None
    /\ call' = None
    /\ ret' = None
    /\ UNCHANGED <<fs, git>>

\* the project's owner writes a file of the working tree
WriteFile(p, f) ==
    /\ call = None
    /\ Cardinality(DOMAIN fs \cup {p}) <= MaxFiles
    /\ fs' = [q \in DOMAIN fs \cup {p} |-> IF q = p THEN f ELSE fs[q]]
    /\ UNCHANGED <<git, call, ret>>

\* the project's owner removes a file of the working tree
RemoveFile(p) ==
    /\ call = None
    /\ p \in DOMAIN fs
    /\ fs' = [q \in DOMAIN fs \ {p} |-> fs[q]]
    /\ UNCHANGED <<git, call, ret>>

Next ==
    \/ \E c \in ToolCalls : CallTool(c.name, c.arguments)
    \/ \E uri \in ResourceUris : ReadResource(uri)
    \/ ListResources
    \/ Return
    \/ \E p \in DOMAIN FileChoices : \E f \in FileChoices[p] : WriteFile(p, f)
    \/ \E p \in DOMAIN FileChoices : RemoveFile(p)

Spec == Init /\ [][Next]_vars

\* the server over a project whose component files share a stem: hero-section
\* in components/ui, in components/ui/blocks (the same category, sections) and
\* in components/cosmic; the file in blocks imports through the alias with ..
SpecSharedStems ==
    Init /\ [][\/ \E c \in ToolCalls : CallTool(c.name, c.arguments)
               \/ \E uri \in ResourceUris : ReadResource(uri)
               \/ ListResources
               \/ Return
               \/ \E p \in {HeroFile, NavbarFile,
                            COMPONENTS_DIR \o << <<"c","o","s","m","i","c">>, <<"h","e","r","o","-","s","e","c","t","i","o","n",".","t","s","x">> >>} :
                      \E f \in FileChoices[p] : WriteFile(p, f)
               \/ WriteFile(COMPONENTS_DIR \o << <<"u","i">>, <<"b","l","o","c","k","s">>, <<"h","e","r","o","-","s","e","c","t","i","o","n",".","t","s","x">> >>,
                            File(<<"i","m","p","o","r","t"," ","a"," ","f","r","o","m"," ","'","@","/",".",".","/",".",".","/","x","'">>))
               \/ \E p \in {HeroFile, NavbarFile,
                            COMPONENTS_DIR \o << <<"c","o","s","m","i","c">>, <<"h","e","r","o","-","s","e","c","t","i","o","n",".","t","s","x">> >>,
                            COMPONENTS_DIR \o << <<"u","i">>, <<"b","l","o","c","k","s">>, <<"h","e","r","o","-","s","e","c","t","i","o","n",".","t","s","x">> >>} :
                      RemoveFile(p)]_vars


----------------------------------------------------------------------------
(* The contract of the server, stated over the request in hand and the     *)
(* response made for it                                                    *)

\* the call in hand is a call of the tool name
IsToolCall(name) == call.kind = "call_tool" /\ call.name = name

\* the store without the files the exclusion policy matches
StripExcluded(fsv) ==
    [p \in {q \in DOMAIN fsv : ~should_exclude_file(q)} |-> fsv[p]]

\* C1: whatever files matching an exclusion pattern the project holds, every
\* enumeration and every fetch (list_components, list_resources,
\* search_components, get_component, read_resource) answers exactly as it
\* does when those files do not exist.
C1_ExcludedLikeAbsent ==
    (/\ call # None
     /\ \/ call.kind \in {"read_resource", "list_resources"}
        \/ IsToolCall("list_components")
        \/ IsToolCall("search_components")
        \/ IsToolCall("get_component"))
    => ret = Serve(StripExcluded(fs), git, call)

\* t holds a substring that a redaction pattern matches
HasRedactable(t) ==
    \E i \in 1..Len(t) : MatchTool(t, i) > 0 \/ MatchKey(t, i) > 0

\* the tokens of a specs mapping
SpecTokens(specs) == UNION {specs[k] : k \in DOMAIN specs}

\* the texts of a sequence
Elements(seq) == {seq[k] : k \in 1..Len(seq)}

\* the texts that the response in hand carries out of the project's files:
\* content, specs tokens, dependency paths, result names and paths
ResponseTexts ==
    IF ret.kind = "text" THEN {ret.text}
    ELSE IF ret.kind # "result" THEN {}
    ELSE IF IsToolCall("get_component") /\ "content" \in DOMAIN ret.doc
    THEN {ret.doc.content, ret.doc.path}
         \cup SpecTokens(ret.doc.specs)
         \cup (IF "dependencies" \in DOMAIN ret.doc
               THEN Elements(ret.doc.dependencies) ELSE {})
    ELSE IF IsToolCall("get_component_specs") /\ "specs" \in DOMAIN ret.doc
    THEN SpecTokens(ret.doc.specs)
    ELSE IF IsToolCall("search_components")
    THEN UNION {{r.name, r.path} : r \in Elements(ret.doc.results)}
    ELSE IF IsToolCall("list_components")
    THEN UNION {Elements(ret.doc.components[c]) :
                   c \in DOMAIN ret.doc.components}
    ELSE {}

\* C2: no field of a response (content, specs tokens, dependency paths,
\* result names and paths) of get_component, get_component_specs,
\* search_components, list_components or read_resource contains a substring
\* that matches a redaction pattern.
C2_NothingRedactableLeaves ==
    call # None => \A t \in ResponseTexts : ~HasRedactable(t)

\* the call in hand asks get_component for an explicit version, other than
\* HEAD and latest, at which the file found for the name cannot be read
AsksMissingRevision ==
    /\ IsToolCall("get_component")
    /\ "name" \in DOMAIN call.arguments
    /\ "version" \in DOMAIN call.arguments
    /\ call.arguments.version \notin {HEAD, <<"l","a","t","e","s","t">>}
    /\ ~get_file_at_version(git,
            FindComponent(scan_components(fs), call.arguments.name),
            call.arguments.version).found

\* C5: get_component for a version other than HEAD/latest at which the
\* component's path does not exist (or which cannot be read) answers not
\* found; it carries no content under the requested version.
C5_MissingRevisionIsNotFound ==
    AsksMissingRevision => ret.kind = "result" /\ "error" \in DOMAIN ret.doc

\* the enumerated components that match query by identifier, or by their
\* redacted body
SearchMatches(fsv, query) ==
    {p \in Elements(AllComponents(scan_components(fsv))) :
        \/ Contains(Lower(Stem(p)), Lower(query))
        \/ /\ CanRead(fsv, p)
           /\ Contains(Lower(redact_content(read_text(fsv, p))), Lower(query))}

\* C6: search_components(query) returns exactly the enumerated components
\* whose identifier contains the query case-insensitively or whose redacted
\* body contains it, and every returned entry carries a tag saying how it
\* matched.
C6_SearchByNameOrRedactedBody ==
    (IsToolCall("search_components") /\ "query" \in DOMAIN call.arguments)
    => /\ ret.kind = "result"
       /\ {r.path : r \in Elements(ret.doc.results)}
            = {RelStr(relative_to(p, PROJECT_ROOT)) :
                  p \in SearchMatches(fs, call.arguments.query)}
       /\ \A r \in Elements(ret.doc.results) : "match" \in DOMAIN r

\* C7: every call_tool and every read_resource returns a result or an error
\* document; none raises.
C7_NeverRaises ==
    call # None => ret.kind # "raise"

\* the call in hand is a get_component that returned the component, and the
\* file it was found at
ReturnedComponent ==
    /\ IsToolCall("get_component")
    /\ ret.kind = "result"
    /\ "content" \in DOMAIN ret.doc
ReturnedFile == FindComponent(scan_components(fs), call.arguments.name)

\* the imports of the working-tree file that resolve inside the project root
ResolvableImports(file_path, content) ==
    {RelStr(relative_to(d, PROJECT_ROOT)) :
        d \in {e \in Elements(DepPaths(file_path, FindImports(content))) :
                  InsideRoot(e)}}

\* C9: when get_component returns a component with its dependencies, every
\* import of the component that resolves inside the project root is in the
\* dependencies list, whatever happens to its other imports.
C9_FailedImportIsOmission ==
    (ReturnedComponent /\ "dependencies" \in DOMAIN ret.doc)
    => ResolvableImports(ReturnedFile, read_text(fs, ReturnedFile))
          \subseteq Elements(ret.doc.dependencies)

\* what git gave for the file and version of the response in hand
ReturnedAtVersion == get_file_at_version(git, ReturnedFile, ret.doc.version)

\* the text that the content of the response in hand is the redaction of:
\* the file at the requested version, or the working-tree file when git
\* gives nothing
ReturnedSource ==
    IF ReturnedAtVersion.found /\ ReturnedAtVersion.text # <<>>
    THEN git.trees[ret.doc.version][relative_to(ReturnedFile, PROJECT_ROOT)]
    ELSE read_text(fs, ReturnedFile)

\* C10: in every get_component response the specs and the dependencies are
\* those of the text the content field was taken from.
C10_SpecsOfReturnedContent ==
    ReturnedComponent
    => /\ DOMAIN ret.doc.specs = SpecKeys
       /\ \A k \in SpecKeys :
             ret.doc.specs[k] = ExtractSpecs(ReturnedSource)[k]
       /\ "dependencies" \in DOMAIN ret.doc
          => ret.doc.dependencies = DependenciesOf(ReturnedFile, ReturnedSource)


\* a request is taken up in this step
TakesRequest == call = None /\ call' # None

\* C11: whatever calls and changes of the working tree came before, a call of
\* a tool or of list_resources answers from the store as it is at the time of
\* the call, and the call leaves the store as it found it.
C11_AnswersFromStoreAtCall ==
    [][(TakesRequest /\ call'.kind \in {"call_tool", "list_resources"})
       => /\ fs' = fs
          /\ git' = git
          /\ ret' = Serve(fs, git, call')]_vars

\* a call answered over a working tree that has changed since start-up, with
\* an answer that the store of start-up would not have given
C11_Witness ==
    /\ call # None
    /\ call.kind \in {"call_tool", "list_resources"}
    /\ fs # <<>>
    /\ ret = Serve(fs, git, call)
    /\ ret # Serve(<<>>, git, call)

----------------------------------------------------------------------------
(* C12: lookup by name                                                     *)

\* the places <<category rank, position in the category>> of the enumerated
\* files whose stem is name
PlacesNamed(components, name) ==
    UNION {{<<k, i>> : i \in {j \in 1..Len(components[CategoryOrder[k]]) :
                                Stem(components[CategoryOrder[k]][j]) = name}}
           : k \in 1..Len(CategoryOrder)}

\* place a comes before place b: an earlier category, or the same category
\* and an earlier position in it
PlaceBefore(a, b) == a[1] < b[1] \/ (a[1] = b[1] /\ a[2] < b[2])

\* the file at the earliest of places, None without one
EarliestPlaced(components, places) ==
    IF places = {} THEN NoFile
    ELSE LET a == CHOOSE x \in places :
                      \A y \in places \ {x} : PlaceBefore(x, y)
         IN  components[CategoryOrder[a[1]]][a[2]]

\* the file the claim names: the one at the earliest place, None without one
FirstPlaced(components, name) ==
    EarliestPlaced(components, PlacesNamed(components, name))

\* the error the claim names
NotFoundError(name) ==
    Result([error |-> <<"C","o","m","p","o","n","e","n","t"," ","'">> \o name
                      \o <<"'"," ","n","o","t"," ","f","o","u","n","d">>])

\* the answer in hand is the answer about component_file, the first placed
AnswersAbout(name, component_file) ==
    /\ IsToolCall("get_component")
        => ((ret.kind = "result" /\ "path" \in DOMAIN ret.doc)
               => ret.doc.path = RelStr(relative_to(component_file, PROJECT_ROOT)))
    /\ IsToolCall("get_component_specs")
        => ret = SpecsDocument(fs, name, Get(call.arguments, "property", "all"),
                               component_file)
    /\ IsToolCall("get_changelog")
        => ret = ComponentChangelog(git, call.arguments, name, component_file)
    /\ component_file = NoFile => ret = NotFoundError(name)

\* C12: get_component, get_component_specs and get_changelog asked for a name
\* all answer about the same file, the first with that stem in the order of
\* the categories sections, navigation, animations, ui, cosmic, magicui,
\* experiments and, within a category, in the order of the enumeration; when
\* no enumerated file has the stem they answer
\* {"error": "Component '<name>' not found"}.
C12_FirstMatchWins ==
    /\ CategoryOrder = << <<"s","e","c","t","i","o","n","s">>, <<"n","a","v","i","g","a","t","i","o","n">>, <<"a","n","i","m","a","t","i","o","n","s">>, <<"u","i">>,
                          <<"c","o","s","m","i","c">>, <<"m","a","g","i","c","u","i">>, <<"e","x","p","e","r","i","m","e","n","t","s">> >>
    /\ ((IsToolCall("get_component") \/ IsToolCall("get_component_specs"))
        /\ "name" \in DOMAIN call.arguments)
        => AnswersAbout(call.arguments["name"],
               FirstPlaced(scan_components(fs), call.arguments["name"]))
    /\ (IsToolCall("get_changelog") /\ HasText(call.arguments, "component"))
        => AnswersAbout(call.arguments["component"],
               FirstPlaced(scan_components(fs), call.arguments["component"]))

\* get_component answered about the first of three files of one stem, two of
\* them in one category and the third in a later one
C12_Witness ==
    /\ IsToolCall("get_component")
    /\ "name" \in DOMAIN call.arguments
    /\ \E a, b, c \in PlacesNamed(scan_components(fs), call.arguments["name"]) :
           a[1] = b[1] /\ a[2] < b[2] /\ b[1] < c[1]
    /\ ret.kind = "result"
    /\ "path" \in DOMAIN ret.doc
    /\ ret.doc.path = RelStr(relative_to(HeroFile, PROJECT_ROOT))

----------------------------------------------------------------------------
(* C13: returned paths stay inside the project root                        *)

\* the location a returned path denotes when it is read from the project root
LocatedFromRoot(path) == Resolve(JoinPath(PROJECT_ROOT, path))

\* a returned path is relative and denotes a location inside the project root
StaysInsideRoot(path) ==
    /\ path # <<>>
    /\ path[1] # "/"
    /\ IsPrefix(PROJECT_ROOT, LocatedFromRoot(path))

\* C13: every path get_component and search_components return, the path of
\* the component and every entry of the dependencies list, is relative to the
\* project root and denotes a location inside it, whatever specifiers the
\* imports of the component carry (alias @/..., relative ./ and ../, with or
\* without .. segments).
C13_PathsStayInsideRoot ==
    (call # None /\ call.kind = "call_tool" /\ ret.kind = "result")
    => /\ (call.name = "get_component" /\ "path" \in DOMAIN ret.doc)
           => StaysInsideRoot(ret.doc.path)
       /\ (call.name = "get_component" /\ "dependencies" \in DOMAIN ret.doc)
           => \A i \in 1..Len(ret.doc.dependencies) :
                  StaysInsideRoot(ret.doc.dependencies[i])
       /\ (call.name = "search_components" /\ "results" \in DOMAIN ret.doc)
           => \A i \in 1..Len(ret.doc.results) :
                  StaysInsideRoot(ret.doc.results[i].path)

----------------------------------------------------------------------------
(* C14: listing and reading resources                                      *)

\* the pairs <<uri, file>> of the resources list_resources advertises for a
\* file: the components by category and stem, the configuration files that
\* exist, the library files that are not excluded
AdvertisedFiles(fsv) ==
    {a \in
        {<<Scheme \o <<"c","o","m","p","o","n","e","n","t","s","/">> \o c[1] \o <<"/">> \o Stem(c[2]), c[2]>> :
            c \in UNION {{<<cat, f>> : f \in Elements(scan_components(fsv)[cat])} :
                           cat \in Categories}}
        \cup {<<Scheme \o <<"c","o","n","f","i","g","/">> \o Name(f), f>> :
                f \in {g \in DOMAIN fsv :
                          /\ Parent(g) = HOMEPAGE_ROOT
                          /\ \E k \in 1..Len(CONFIG_FILES) :
                                 CONFIG_FILES[k].file_name = Name(g)}}
        \cup {<<Scheme \o <<"l","i","b","/">> \o Stem(f), f>> :
                f \in {g \in DOMAIN fsv :
                          /\ Parent(g) = LIB_DIR
                          /\ EndsWith(Name(g), <<".","t","s">>)
                          /\ ~should_exclude_file(g)}} :
        \E k \in 1..Len(list_resources(fsv).resources) :
            list_resources(fsv).resources[k].uri = a[1]}

\* C14: read_resource on the URI of a resource that list_resources advertises
\* for a readable file returns, over the same store, the redacted content of
\* that file, also when two component files of one category share a stem.
C14_ReadsWhatIsListed ==
    (call # None /\ call.kind = "read_resource")
    => \A a \in AdvertisedFiles(fs) :
           (a[1] = call.uri /\ CanRead(fs, a[2]))
           => ret = Text(redact_content(read_text(fs, a[2])))
=============================================================================
